---- MODULE Spec2Model ----
(***************************************************************************)
(* A model of op-succinct's host orchestration (utils/host/src/host.rs,    *)
(* OPSuccinctHost::run) and of the boot commitment                         *)
(* (utils/client/src/boot.rs, hash_rollup_config and BootInfoStruct).      *)
(***************************************************************************)
EXTENDS Integers, Sequences, FiniteSets, TLC

(***************************************************************************)
(* Bounds of the model.                                                    *)
(***************************************************************************)
\* number of concurrent invocations of OPSuccinctHost::run
MaxRuns == 2
\* number of requests the witness generators issue over their channels, in all
MaxRequests == 1

Runs == 1..MaxRuns

\* the witness payloads a witness generator may return
WitnessValues == {"w1"}

\* "no channel": the value of a local that has not been bound yet
NoChan == 0

VARIABLES
    \* ---- OPSuccinctHost::run, one entry per invocation ----
    pc,             \* position of the invocation in the body of run
    preimage,       \* local `preimage`: channel id, NoChan before line 81
    hint,           \* local `hint`: channel id, NoChan before line 82
    server,         \* the server task spawned by start_server and its endpoints
    abortCalled,    \* whether server_task.abort() has been invoked
    witgen,         \* the witness generator's call: state, endpoints, outcome
    sent,           \* number of requests the witness generators have issued
    toHost,         \* per channel: requests in flight from the client end
    delivered,      \* per run: the requests its server task has received
    result,         \* what run returned to its caller
    \* ---- boot.rs: inputs and outputs of the pure functions ----
    bpc,            \* "input" before the functions are applied, "done" after
    celo_config,    \* a CeloRollupConfig
    celo_config2,   \* a second CeloRollupConfig, compared with the first
    boot_info,      \* a BootInfo
    digest,         \* hash_rollup_config(celo_config)
    digest2,        \* hash_rollup_config(celo_config2)
    boot_struct,    \* BootInfoStruct::from(boot_info)
    encoded         \* the ABI encoding of boot_struct

hostVars == <<pc, preimage, hint, server, abortCalled, witgen, sent,
              toHost, delivered, result>>
bootVars == <<bpc, celo_config, celo_config2, boot_info, digest, digest2, boot_struct, encoded>>
vars == <<pc, preimage, hint, server, abortCalled, witgen, sent,
          toHost, delivered, result, bpc, celo_config, celo_config2, boot_info, digest,
          digest2, boot_struct, encoded>>

(***************************************************************************)
(* host.rs: channels, tasks and OPSuccinctHost::run                        *)
(***************************************************************************)

\* One end of a BidirectionalChannel: the fields `client` and `host`.
Endpoint(c, side) == [chan |-> c, side |-> side]
NoEndpoint == Endpoint(NoChan, "none")

\* Result values of run: Ok(witness) or Err(error).
Ok(w) == [tag |-> "Ok", val |-> w]
Err(e) == [tag |-> "Err", val |-> e]
NoResult == [tag |-> "none", val |-> "none"]

\* A JoinHandle's task that has not been spawned. A task is "running" from its
\* spawn until it finishes on its own ("finished_ok", "finished_err") or the
\* runtime cancels it ("aborted"); abort_requested records that abort() has been
\* invoked on its handle while it was running.
NoTask == [state |-> "none", abort_requested |-> FALSE,
           hint |-> NoEndpoint, preimage |-> NoEndpoint]

\* start_server returned Err: no task was spawned.
StartFailed == [state |-> "start_failed", abort_requested |-> FALSE,
                hint |-> NoEndpoint, preimage |-> NoEndpoint]

\* PreimageServerStarter::start_server(&self, hint, preimage): the spawned
\* task owns the two endpoints it was given, under the parameter names.
start_server(hintEnd, preimageEnd) ==
    [state |-> "running", abort_requested |-> FALSE,
     hint |-> hintEnd, preimage |-> preimageEnd]

\* WitnessGenerator::run(&self, preimage_chan, hint_chan): the call owns the
\* two endpoints it was given, first the preimage one, then the hint one.
witness_generator_run(preimageEnd, hintEnd) ==
    [state |-> "running", preimage |-> preimageEnd, hint |-> hintEnd,
     outcome |-> NoResult]
NoCall == [state |-> "none", preimage |-> NoEndpoint, hint |-> NoEndpoint,
           outcome |-> NoResult]

\* JoinHandle::abort(): requests the cancellation of a task that is still
\* running and returns at once. The task is not stopped by the call: the runtime
\* cancels it when it next yields (ServerCancelled), and until then the poll in
\* progress goes on and may receive requests or finish with a result of its own.
\* A task that has already finished keeps its result.
abort(task) ==
    IF task.state = "running" THEN [task EXCEPT !.abort_requested = TRUE] ELSE task

HostInit ==
    /\ pc = [r \in Runs |-> "start"]
    /\ preimage = [r \in Runs |-> NoChan]
    /\ hint = [r \in Runs |-> NoChan]
    /\ server = [r \in Runs |-> NoTask]
    /\ abortCalled = [r \in Runs |-> FALSE]
    /\ witgen = [r \in Runs |-> NoCall]
    /\ sent = 0
    /\ toHost = [c \in 1..(2 * MaxRuns) |-> <<>>]
    /\ delivered = [r \in Runs |-> {}]
    /\ result = [r \in Runs |-> NoResult]

\* BidirectionalChannel::new(): every call creates a channel of its own. A channel
\* is named by the call that created it: the k-th call of invocation r.
BidirectionalChannel_new(r, k) == 2 * (r - 1) + k

\* The channels created once and used by every invocation: the k-th channel of
\* any invocation is one and the same.
AllocChannels_shared(r) ==
    /\ pc[r] = "start"
    /\ \E okPreimage \in BOOLEAN, okHint \in BOOLEAN :
         IF ~okPreimage
         THEN /\ result' = [result EXCEPT ![r] = Err("channel")]
              /\ pc' = [pc EXCEPT ![r] = "returned"]
              /\ UNCHANGED <<preimage, hint>>
         ELSE IF ~okHint
         THEN /\ preimage' = [preimage EXCEPT ![r] = 1]
              /\ result' = [result EXCEPT ![r] = Err("channel")]
              /\ pc' = [pc EXCEPT ![r] = "returned"]
              /\ UNCHANGED hint
         ELSE /\ preimage' = [preimage EXCEPT ![r] = 1]
              /\ hint' = [hint EXCEPT ![r] = 2]
              /\ pc' = [pc EXCEPT ![r] = "channels_allocated"]
              /\ UNCHANGED result
    /\ UNCHANGED bootVars
    /\ UNCHANGED <<server, abortCalled, witgen, sent, toHost, delivered>>

\* lines 81-82: let preimage = BidirectionalChannel::new()?;
\*              let hint = BidirectionalChannel::new()?;
\* Each call creates a channel or fails; `?` returns the first failure.
AllocChannels(r) ==
    /\ pc[r] = "start"
    /\ \E okPreimage \in BOOLEAN, okHint \in BOOLEAN :
         IF ~okPreimage
         THEN /\ result' = [result EXCEPT ![r] = Err("channel")]
              /\ pc' = [pc EXCEPT ![r] = "returned"]
              /\ UNCHANGED <<preimage, hint>>
         ELSE IF ~okHint
         THEN /\ preimage' = [preimage EXCEPT ![r] = BidirectionalChannel_new(r, 1)]
              /\ result' = [result EXCEPT ![r] = Err("channel")]
              /\ pc' = [pc EXCEPT ![r] = "returned"]
              /\ UNCHANGED hint
         ELSE /\ preimage' = [preimage EXCEPT ![r] = BidirectionalChannel_new(r, 1)]
              /\ hint' = [hint EXCEPT ![r] = BidirectionalChannel_new(r, 2)]
              /\ pc' = [pc EXCEPT ![r] = "channels_allocated"]
              /\ UNCHANGED result
    /\ UNCHANGED bootVars
    /\ UNCHANGED <<server, abortCalled, witgen, sent, toHost, delivered>>

\* The server start moved after the witness generator: run goes on to line 86
\* with no server task spawned.
StartServer_after_witness(r) ==
    /\ pc[r] = "channels_allocated"
    /\ pc' = [pc EXCEPT ![r] = "server_started"]
    /\ UNCHANGED bootVars
    /\ UNCHANGED <<preimage, hint, server, abortCalled, witgen, sent, toHost,
                   delivered, result>>

\* The error of start_server kept for later instead of returned by `?`: run goes
\* on to the witness generator.
StartServer_no_short_circuit(r) ==
    /\ pc[r] = "channels_allocated"
    /\ \E ok \in BOOLEAN :
         IF ok
         THEN /\ server' = [server EXCEPT ![r] =
                    start_server(Endpoint(hint[r], "host"), Endpoint(preimage[r], "host"))]
              /\ UNCHANGED result
         ELSE /\ server' = [server EXCEPT ![r] = StartFailed]
              /\ result' = [result EXCEPT ![r] = Err("server")]
    /\ pc' = [pc EXCEPT ![r] = "server_started"]
    /\ UNCHANGED bootVars
    /\ UNCHANGED <<preimage, hint, abortCalled, witgen, sent, toHost, delivered>>

\* line 84: let server_task = args.start_server(hint.host, preimage.host).await?;
StartServer(r) ==
    /\ pc[r] = "channels_allocated"
    /\ \E ok \in BOOLEAN :
         IF ok
         THEN /\ server' = [server EXCEPT ![r] =
                    start_server(Endpoint(hint[r], "host"), Endpoint(preimage[r], "host"))]
              /\ pc' = [pc EXCEPT ![r] = "server_started"]
              /\ UNCHANGED result
         ELSE /\ server' = [server EXCEPT ![r] = StartFailed]
              /\ result' = [result EXCEPT ![r] = Err("server")]
              /\ pc' = [pc EXCEPT ![r] = "returned"]
    /\ UNCHANGED bootVars
    /\ UNCHANGED <<preimage, hint, abortCalled, witgen, sent, toHost, delivered>>

\* line 86: self.witness_generator().run(preimage.client, hint.client) is called
StartWitness(r) ==
    /\ pc[r] = "server_started"
    /\ witgen' = [witgen EXCEPT ![r] =
          witness_generator_run(Endpoint(preimage[r], "client"), Endpoint(hint[r], "client"))]
    /\ pc' = [pc EXCEPT ![r] = "witness_running"]
    /\ UNCHANGED bootVars
    /\ UNCHANGED <<preimage, hint, server, abortCalled, sent, toHost,
                   delivered, result>>

\* the witness generator issues a request on one of its two endpoints
WitnessRequest(r) ==
    /\ witgen[r].state = "running"
    /\ sent < MaxRequests
    /\ \E kind \in {"hint", "preimage"} :
         LET end == IF kind = "hint" THEN witgen[r].hint ELSE witgen[r].preimage
         IN  /\ end.side = "client"
             /\ toHost' = [toHost EXCEPT ![end.chan] =
                              Append(@, [from |-> r, kind |-> kind])]
    /\ sent' = sent + 1
    /\ UNCHANGED bootVars
    /\ UNCHANGED <<pc, preimage, hint, server, abortCalled, witgen,
                   delivered, result>>

\* line 86: the witness generator's future completes, with witness data or an error
WitnessComplete(r) ==
    /\ pc[r] = "witness_running"
    /\ \E out \in {Ok(w) : w \in WitnessValues} \cup {Err("witness")} :
         witgen' = [witgen EXCEPT ![r].state = "done", ![r].outcome = out]
    /\ pc' = [pc EXCEPT ![r] = "witness_done"]
    /\ UNCHANGED bootVars
    /\ UNCHANGED <<preimage, hint, server, abortCalled, sent, toHost,
                   delivered, result>>

\* The server task joined instead of aborted (server_task.await): run goes on
\* only once the server task has finished, and returns the witness.
FinishRun_await_server(r) ==
    /\ pc[r] = "witness_done"
    /\ server[r].state \in {"finished_ok", "finished_err"}
    /\ result' = [result EXCEPT ![r] = witgen[r].outcome]
    /\ pc' = [pc EXCEPT ![r] = "returned"]
    /\ UNCHANGED bootVars
    /\ UNCHANGED <<preimage, hint, server, abortCalled, witgen, sent, toHost, delivered>>

\* The server task's result looked at after the abort: an error of the server
\* task is returned in place of the witness.
FinishRun_join(r) ==
    /\ pc[r] = "witness_done"
    /\ IF witgen[r].outcome.tag = "Err"
       THEN /\ result' = [result EXCEPT ![r] = witgen[r].outcome]
            /\ UNCHANGED <<server, abortCalled>>
       ELSE /\ server' = [server EXCEPT ![r] = abort(@)]
            /\ abortCalled' = [abortCalled EXCEPT ![r] = TRUE]
            /\ result' = [result EXCEPT ![r] =
                  IF server[r].state = "finished_err" THEN Err("server")
                  ELSE Ok(witgen[r].outcome.val)]
    /\ pc' = [pc EXCEPT ![r] = "returned"]
    /\ UNCHANGED bootVars
    /\ UNCHANGED <<preimage, hint, witgen, sent, toHost, delivered>>

\* lines 86-91: `?` returns the witness generator's error at once; otherwise
\* server_task.abort() is invoked and Ok(witness) is returned.
FinishRun(r) ==
    /\ pc[r] = "witness_done"
    /\ IF witgen[r].outcome.tag = "Err"
       THEN /\ result' = [result EXCEPT ![r] = witgen[r].outcome]
            /\ UNCHANGED <<server, abortCalled>>
       ELSE /\ server' = [server EXCEPT ![r] = abort(@)]
            /\ abortCalled' = [abortCalled EXCEPT ![r] = TRUE]
            /\ result' = [result EXCEPT ![r] = Ok(witgen[r].outcome.val)]
    /\ pc' = [pc EXCEPT ![r] = "returned"]
    /\ UNCHANGED bootVars
    /\ UNCHANGED <<preimage, hint, witgen, sent, toHost, delivered>>

\* the server task receives a request on one of the endpoints it owns; a task
\* whose cancellation has been requested still does so until its poll ends
ServerServe(r) ==
    /\ server[r].state = "running"
    /\ \E end \in {server[r].hint, server[r].preimage} :
         /\ end.side = "host"
         /\ toHost[end.chan] # <<>>
         /\ delivered' = [delivered EXCEPT ![r] = @ \cup {Head(toHost[end.chan])}]
         /\ toHost' = [toHost EXCEPT ![end.chan] = Tail(@)]
    /\ UNCHANGED bootVars
    /\ UNCHANGED <<pc, preimage, hint, server, abortCalled, witgen,
                   sent, result>>

\* the server task ends on its own: JoinHandle<Result<(), SingleChainHostError>>;
\* a task whose cancellation has been requested may still end this way when the
\* poll in progress runs to the end of the task
ServerFinish(r) ==
    /\ server[r].state = "running"
    /\ \E st \in {"finished_ok", "finished_err"} :
         server' = [server EXCEPT ![r].state = st]
    /\ UNCHANGED bootVars
    /\ UNCHANGED <<pc, preimage, hint, abortCalled, witgen, sent,
                   toHost, delivered, result>>

\* the runtime cancels a task whose abort was requested: at the task's next
\* yield point its future is dropped and it runs no further
ServerCancelled(r) ==
    /\ server[r].state = "running"
    /\ server[r].abort_requested
    /\ server' = [server EXCEPT ![r].state = "aborted"]
    /\ UNCHANGED bootVars
    /\ UNCHANGED <<pc, preimage, hint, abortCalled, witgen, sent,
                   toHost, delivered, result>>

\* start_server has returned Ok: a server task was spawned for invocation r
ServerStarted(r) == server[r].state \notin {"none", "start_failed"}

\* the requests issued so far, in flight or received by a server task
InFlight == UNION {{toHost[c][i] : i \in 1..Len(toHost[c])} : c \in DOMAIN toHost}
Requests == IF sent = 0 THEN {} ELSE InFlight \cup UNION {delivered[q] : q \in Runs}

\* the requests invocation r's witness generator has issued so far
RequestsIssuedBy(r) == {m \in Requests : m.from = r}

HostNext ==
    \/ \E r \in Runs : AllocChannels(r)
    \/ \E r \in Runs : StartServer(r)
    \/ \E r \in Runs : StartWitness(r)
    \/ \E r \in Runs : WitnessRequest(r)
    \/ \E r \in Runs : WitnessComplete(r)
    \/ \E r \in Runs : FinishRun(r)
    \/ \E r \in Runs : ServerServe(r)
    \/ \E r \in Runs : ServerFinish(r)
    \/ \E r \in Runs : ServerCancelled(r)

(***************************************************************************)
(* boot.rs: hash_rollup_config, BootInfoStruct and its ABI encoding        *)
(***************************************************************************)

\* Option<T>: None is the empty sequence, Some(v) the sequence holding v.
None == <<>>
Some(v) == <<v>>
unwrap_or(opt, default) == IF opt = None THEN default ELSE opt[1]

\* JSON values (serde_json::Value), tagged so that values of different kinds
\* can be compared.
JNull == [t |-> "null"]
JNum(n) == [t |-> "num", n |-> n]
JStr(s) == [t |-> "str", s |-> s]
JObj(o) == [t |-> "obj", o |-> o]

\* Text is a sequence of one-character strings.
HexChars == <<"0", "1", "2", "3", "4", "5", "6", "7",
              "8", "9", "a", "b", "c", "d", "e", "f">>

RECURSIVE Zeros(_)
Zeros(n) == IF n <= 0 THEN <<>> ELSE <<"0">> \o Zeros(n - 1)

\* {:x} of an unsigned integer: its hex digits, without leading zeros
RECURSIVE LowerHex(_)
LowerHex(n) ==
    IF n < 16 THEN <<HexChars[n + 1]>>
    ELSE LowerHex(n \div 16) \o <<HexChars[(n % 16) + 1]>>

\* {:0Wx} of an unsigned integer: {:x} padded with zeros on the left to width W
LowerHexPadded(n, width) ==
    LET digits == LowerHex(n) IN Zeros(width - Len(digits)) \o digits

\* {:x} of a FixedBytes value (B256, Address): two hex digits per byte
RECURSIVE LowerHexBytes(_)
LowerHexBytes(bytes) ==
    IF bytes = <<>> THEN <<>>
    ELSE <<HexChars[(Head(bytes) \div 16) + 1], HexChars[(Head(bytes) % 16) + 1]>>
         \o LowerHexBytes(Tail(bytes))

\* format!("0x{...}", v)
Prefixed(text) == <<"0", "x">> \o text

\* a | b on unsigned integers
RECURSIVE BitOr(_, _)
BitOr(a, b) ==
    IF a = 0 THEN b
    ELSE IF b = 0 THEN a
    ELSE (IF a % 2 = 1 \/ b % 2 = 1 THEN 1 ELSE 0) + 2 * BitOr(a \div 2, b \div 2)

\* lines 38-39: (denominator.unwrap_or(0) as u64) | ((elasticity.unwrap_or(0) as u64) << 8)
\* Both fields are Option<u32>, widened to u64 before the shift: nothing is lost
\* by the shift, which is a multiplication by 2^8.
eip1559_pack(sc) ==
    BitOr(unwrap_or(sc.eip1559_denominator, 0),
          unwrap_or(sc.eip1559_elasticity, 0) * 256)

\* lines 37-40: "eip1559Params": format!("0x{:016x}", ...)
eip1559Params(sc) == Prefixed(LowerHexPadded(eip1559_pack(sc), 16))

\* lines 41-44: "operatorFeeParams": format!("0x{:064x}",
\*     (operator_fee_scalar.unwrap_or(0) as u128) | ((operator_fee_constant.unwrap_or(0) as u128) << 64))
\* The scalar is a u32 and the constant a u64: the scalar fills bits 0..31 and the
\* constant bits 64..127, so the 32 hex digits of the u128 are the 16 digits of the
\* constant followed by the 16 digits of the scalar.
operatorFeeParams(sc) ==
    Prefixed(Zeros(32)
             \o LowerHexPadded(unwrap_or(sc.operator_fee_constant, 0), 16)
             \o LowerHexPadded(unwrap_or(sc.operator_fee_scalar, 0), 16))

\* lines 31-46: the "system_config" object of a SystemConfig
system_config_json(sc) ==
    JObj([batcherAddr |-> JStr(Prefixed(LowerHexBytes(sc.batcher_address))),
          overhead |-> JStr(Prefixed(LowerHexPadded(sc.overhead, 64))),
          scalar |-> JStr(Prefixed(LowerHexPadded(sc.scalar, 64))),
          gasLimit |-> JNum(sc.gas_limit),
          eip1559Params |-> JStr(eip1559Params(sc)),
          operatorFeeParams |-> JStr(operatorFeeParams(sc))])

\* lines 72-79: the "alt_da" object of an AltDAConfig; an absent Option is null
alt_da_json(alt_da) ==
    JObj([da_challenge_contract_address |->
              IF alt_da.da_challenge_address = None THEN JNull
              ELSE JStr(Prefixed(LowerHexBytes(alt_da.da_challenge_address[1]))),
          da_commitment_type |->
              IF alt_da.da_commitment_type = None THEN JNull
              ELSE JStr(alt_da.da_commitment_type[1]),
          da_challenge_window |->
              IF alt_da.da_challenge_window = None THEN JNull
              ELSE JNum(alt_da.da_challenge_window[1]),
          da_resolve_window |->
              IF alt_da.da_resolve_window = None THEN JNull
              ELSE JNum(alt_da.da_resolve_window[1])])

\* What serde would write for an Option<u64> left as it is: null when absent.
hardfork_time_as_option(time) == IF time = None THEN JNull ELSE JNum(time[1])

\* lines 54-62: "<fork>_time": config.op_rollup_config.hardforks.<fork>_time.unwrap_or(0)
hardfork_time(time) == JNum(unwrap_or(time, 0))

\* lines 20-80: the JSON value built from config.op_rollup_config
rollup_config_json(rc) ==
    [genesis |-> JObj(
        [l1 |-> JObj([hash |-> JStr(Prefixed(LowerHexBytes(rc.genesis.l1.hash))),
                      number |-> JNum(rc.genesis.l1.number)]),
         l2 |-> JObj([hash |-> JStr(Prefixed(LowerHexBytes(rc.genesis.l2.hash))),
                      number |-> JNum(rc.genesis.l2.number)]),
         l2_time |-> JNum(rc.genesis.l2_time),
         system_config |->
            IF rc.genesis.system_config = None THEN JNull
            ELSE system_config_json(rc.genesis.system_config[1])]),
     block_time |-> JNum(rc.block_time),
     max_sequencer_drift |-> JNum(rc.max_sequencer_drift),
     seq_window_size |-> JNum(rc.seq_window_size),
     channel_timeout |-> JNum(rc.channel_timeout),
     l1_chain_id |-> JNum(rc.l1_chain_id),
     l2_chain_id |-> JNum(rc.l2_chain_id),
     regolith_time |-> hardfork_time(rc.hardforks.regolith_time),
     canyon_time |-> hardfork_time(rc.hardforks.canyon_time),
     delta_time |-> hardfork_time(rc.hardforks.delta_time),
     ecotone_time |-> hardfork_time(rc.hardforks.ecotone_time),
     fjord_time |-> hardfork_time(rc.hardforks.fjord_time),
     granite_time |-> hardfork_time(rc.hardforks.granite_time),
     holocene_time |-> hardfork_time(rc.hardforks.holocene_time),
     isthmus_time |-> hardfork_time(rc.hardforks.isthmus_time),
     batch_inbox_address |-> JStr(Prefixed(LowerHexBytes(rc.batch_inbox_address))),
     deposit_contract_address |-> JStr(Prefixed(LowerHexBytes(rc.deposit_contract_address))),
     l1_system_config_address |-> JStr(Prefixed(LowerHexBytes(rc.l1_system_config_address))),
     protocol_versions_address |-> JStr(Prefixed(LowerHexBytes(rc.protocol_versions_address))),
     chain_op_config |-> JObj(
        [eip1559Elasticity |-> JNum(rc.chain_op_config.eip1559_elasticity),
         eip1559Denominator |-> JNum(rc.chain_op_config.eip1559_denominator),
         eip1559DenominatorCanyon |-> JNum(rc.chain_op_config.eip1559_denominator_canyon)]),
     alt_da |->
        IF rc.alt_da_config = None THEN JNull ELSE alt_da_json(rc.alt_da_config[1])]

\* The JSON value with line 55 in force: "cel2_time" taken from the Celo wrapper.
full_config_with_cel2(config) ==
    rollup_config_json(config.op_rollup_config)
        @@ [cel2_time |-> JNum(unwrap_or(config.hardforks.cel2_time, 0))]

\* lines 20-80: let full_config = serde_json::json!({...}); every value is read
\* from config.op_rollup_config, and line 55 (cel2_time) is commented out.
full_config(config) == rollup_config_json(config.op_rollup_config)

\* line 81: serde_json::to_string_pretty(&full_config).unwrap(). The text is a
\* function of the JSON value alone and distinct values give distinct texts; the
\* text stands as the value it prints.
to_string_pretty(value) == [pretty |-> JObj(value)]

\* lines 86-92: Sha256 of the text's bytes. The digest stands as the text it was
\* computed from: equal texts give equal digests, and distinct texts are taken to
\* give distinct digests.
Sha256(text) == [sha256_of |-> text]

\* lines 17-94: hash_rollup_config(config: &CeloRollupConfig) -> B256
hash_rollup_config(config) == Sha256(to_string_pretty(full_config(config)))

\* line 12: pub const AGGREGATION_OUTPUTS_SIZE: usize = 6 * 32;
AGGREGATION_OUTPUTS_SIZE == 6 * 32

\* lines 107-125: impl From<BootInfo> for BootInfoStruct
BootInfoStruct_from(bi) ==
    LET celo_rollup_config ==
            [op_rollup_config |-> bi.rollup_config,
             hardforks |-> [op_hardfork_config |-> bi.rollup_config.hardforks,
                            cel2_time |-> Some(0)]]
    IN  [l1Head |-> bi.l1_head,
         l2PreRoot |-> bi.agreed_l2_output_root,
         l2PostRoot |-> bi.claimed_l2_output_root,
         l2BlockNumber |-> bi.claimed_l2_block_number,
         rollupConfigHash |-> hash_rollup_config(celo_rollup_config)]

\* n.to_be_bytes() cut to its k low bytes, most significant first
RECURSIVE BigEndian(_, _)
BigEndian(n, k) ==
    IF k = 0 THEN <<>> ELSE Append(BigEndian(n \div 256, k - 1), n % 256)

ZeroBytes(k) == [i \in 1..k |-> 0]

\* A uint64 written the way a bytes8 is: value first, padding after.
abi_word_uint64_left(n) == BigEndian(n, 8) \o ZeroBytes(24)

\* line 102: uint64 l2BlockNumber; an ABI word holds an unsigned integer
\* big-endian and right-aligned, padded with zero bytes on the left.
abi_word_uint64(n) == ZeroBytes(24) \o BigEndian(n, 8)

\* lines 99-101: bytes32 fields holding a B256 given by its 32 bytes
abi_word_bytes32(bytes) == bytes

\* line 103: bytes32 rollupConfigHash; the 32 bytes of a Sha256 digest, byte i
\* standing as the pair of the digest and i.
abi_word_digest(d) == [i \in 1..32 |-> <<d, i>>]

\* lines 96-105: the ABI encoding of the BootInfoStruct declared by sol!: all
\* fields are static, so the encoding is one 32-byte word per field, in
\* declaration order.
abi_encode(b) ==
    abi_word_bytes32(b.l1Head)
    \o abi_word_bytes32(b.l2PreRoot)
    \o abi_word_bytes32(b.l2PostRoot)
    \o abi_word_uint64(b.l2BlockNumber)
    \o abi_word_digest(b.rollupConfigHash)

(***************************************************************************)
(* Inputs of the boot.rs functions                                         *)
(***************************************************************************)
\* largest hard-fork timestamp among the inputs
MaxTime == 1

\* the hard-fork timestamps hash_rollup_config serializes (lines 54-62)
Forks == {"regolith_time", "canyon_time", "delta_time", "ecotone_time",
          "fjord_time", "granite_time", "holocene_time", "isthmus_time"}

OptTimes == {None} \cup {Some(t) : t \in 0..MaxTime}

\* values of SystemConfig.eip1559_denominator and eip1559_elasticity (Option<u32>)
ParamSamples == {0, 2, 5, 255, 256}
OptParams == {None} \cup {Some(v) : v \in ParamSamples}

\* values of BootInfo.claimed_l2_block_number (u64)
BlockSamples == {0, 1, 255, 256, 2147483647}

BytesSample(len, seed) == [i \in 1..len |-> (seed + 7 * i) % 256]

SystemConfigOf(d, e) ==
    [batcher_address |-> BytesSample(20, 1),
     overhead |-> 188,
     scalar |-> 684000,
     gas_limit |-> 30000000,
     eip1559_denominator |-> d,
     eip1559_elasticity |-> e,
     operator_fee_scalar |-> Some(7),
     operator_fee_constant |-> Some(3)]

SystemConfigs ==
    {None} \cup {Some(SystemConfigOf(d, e)) : d \in OptParams, e \in OptParams}

NoForks == [f \in Forks |-> None]

RollupConfigOf(hardforks, sc) ==
    [genesis |-> [l1 |-> [hash |-> BytesSample(32, 3), number |-> 10],
                  l2 |-> [hash |-> BytesSample(32, 5), number |-> 0],
                  l2_time |-> 1700000000,
                  system_config |-> sc],
     block_time |-> 2,
     max_sequencer_drift |-> 600,
     seq_window_size |-> 3600,
     channel_timeout |-> 300,
     l1_chain_id |-> 1,
     l2_chain_id |-> 10,
     hardforks |-> hardforks,
     batch_inbox_address |-> BytesSample(20, 11),
     deposit_contract_address |-> BytesSample(20, 13),
     l1_system_config_address |-> BytesSample(20, 17),
     protocol_versions_address |-> BytesSample(20, 19),
     chain_op_config |-> [eip1559_elasticity |-> 6,
                          eip1559_denominator |-> 50,
                          eip1559_denominator_canyon |-> 250],
     alt_da_config |-> None]

CeloRollupConfigOf(rc, wrapperForks, cel2) ==
    [op_rollup_config |-> rc,
     hardforks |-> [op_hardfork_config |-> wrapperForks, cel2_time |-> cel2]]

BootInfoOf(rc, block) ==
    [l1_head |-> BytesSample(32, 23),
     agreed_l2_output_root |-> BytesSample(32, 29),
     claimed_l2_output_root |-> BytesSample(32, 31),
     claimed_l2_block_number |-> block,
     chain_id |-> rc.l2_chain_id,
     rollup_config |-> rc]

\* The pairs of configs compared: equal but for one hard-fork timestamp, equal
\* but for the Celo wrapper's own fields, or equal but for the system config.
ConfigPairs ==
    {<<CeloRollupConfigOf(RollupConfigOf([NoForks EXCEPT ![f] = v], None),
                          [NoForks EXCEPT ![f] = v], Some(0)),
       CeloRollupConfigOf(RollupConfigOf([NoForks EXCEPT ![f] = v2], None),
                          [NoForks EXCEPT ![f] = v2], Some(0))>> :
        f \in Forks, v \in OptTimes, v2 \in OptTimes}
    \cup
    {<<CeloRollupConfigOf(RollupConfigOf(NoForks, None), [NoForks EXCEPT ![f] = v], c),
       CeloRollupConfigOf(RollupConfigOf(NoForks, None), NoForks, c2)>> :
        f \in {"regolith_time"}, v \in OptTimes, c \in OptTimes, c2 \in OptTimes}
    \cup
    {<<CeloRollupConfigOf(RollupConfigOf(NoForks, sc), NoForks, Some(0)),
       CeloRollupConfigOf(RollupConfigOf(NoForks, sc2), NoForks, Some(0))>> :
        sc \in SystemConfigs, sc2 \in SystemConfigs}

HostIdle ==
    /\ pc = [r \in Runs |-> "idle"]
    /\ preimage = [r \in Runs |-> NoChan]
    /\ hint = [r \in Runs |-> NoChan]
    /\ server = [r \in Runs |-> NoTask]
    /\ abortCalled = [r \in Runs |-> FALSE]
    /\ witgen = [r \in Runs |-> NoCall]
    /\ sent = 0
    /\ toHost = [c \in 1..(2 * MaxRuns) |-> <<>>]
    /\ delivered = [r \in Runs |-> {}]
    /\ result = [r \in Runs |-> NoResult]

BootInit ==
    /\ bpc = "input"
    /\ \E pair \in ConfigPairs, block \in BlockSamples :
         /\ celo_config = pair[1]
         /\ celo_config2 = pair[2]
         /\ boot_info = BootInfoOf(pair[1].op_rollup_config, block)
    /\ digest = <<>>
    /\ digest2 = <<>>
    /\ boot_struct = <<>>
    /\ encoded = <<>>

\* hash_rollup_config is applied to both configs
HashConfigs ==
    /\ bpc = "input"
    /\ digest' = hash_rollup_config(celo_config)
    /\ digest2' = hash_rollup_config(celo_config2)
    /\ bpc' = "hashed"
    /\ UNCHANGED <<celo_config, celo_config2, boot_info, boot_struct, encoded>>
    /\ UNCHANGED hostVars

\* BootInfoStruct::from(boot_info)
Assemble ==
    /\ bpc = "hashed"
    /\ boot_struct' = BootInfoStruct_from(boot_info)
    /\ bpc' = "assembled"
    /\ UNCHANGED <<celo_config, celo_config2, boot_info, digest, digest2, encoded>>
    /\ UNCHANGED hostVars

\* the BootInfoStruct is ABI-encoded
Encode ==
    /\ bpc = "assembled"
    /\ encoded' = abi_encode(boot_struct)
    /\ bpc' = "done"
    /\ UNCHANGED <<celo_config, celo_config2, boot_info, digest, digest2, boot_struct>>
    /\ UNCHANGED hostVars

BootNext ==
    \/ HashConfigs
    \/ Assemble
    \/ Encode

\* the specification of the boot.rs functions over the inputs above
BootSpecInit == HostIdle /\ BootInit

BootSpec == BootSpecInit /\ [][BootNext]_vars

BootIdle ==
    /\ bpc = "off"
    /\ celo_config = <<>>
    /\ celo_config2 = <<>>
    /\ boot_info = <<>>
    /\ digest = <<>>
    /\ digest2 = <<>>
    /\ boot_struct = <<>>
    /\ encoded = <<>>

Init == HostInit /\ BootIdle

\* a single invocation of run, any of them: the other invocations are never made
OneRunInit ==
    /\ \E q \in Runs : pc = [r \in Runs |-> IF r = q THEN "start" ELSE "idle"]
    /\ preimage = [r \in Runs |-> NoChan]
    /\ hint = [r \in Runs |-> NoChan]
    /\ server = [r \in Runs |-> NoTask]
    /\ abortCalled = [r \in Runs |-> FALSE]
    /\ witgen = [r \in Runs |-> NoCall]
    /\ sent = 0
    /\ toHost = [c \in 1..(2 * MaxRuns) |-> <<>>]
    /\ delivered = [r \in Runs |-> {}]
    /\ result = [r \in Runs |-> NoResult]
    /\ BootIdle

Next == HostNext

Spec == Init /\ [][Next]_vars

\* The async runtime keeps polling the future of run: once the awaited call has
\* completed, the continuation of run is executed.
FairSpec == OneRunInit /\ [][Next]_vars /\ \A r \in Runs : WF_vars(FinishRun(r))

(***************************************************************************)
(* Properties of OPSuccinctHost::run                                       *)
(***************************************************************************)

\* C1: once start_server has succeeded, abort has been invoked on the server
\* task's handle whenever run has returned, whether the witness generator
\* succeeded or failed.
C1_AbortOnEveryExit ==
    \A r \in Runs : (pc[r] = "returned" /\ ServerStarted(r)) => abortCalled[r]

\* C2: the witness generator is started, and issues requests, only when both
\* channels have been allocated and start_server has returned a server task.
C2_ServerBeforeWitness ==
    /\ \A r \in Runs :
          witgen[r].state # "none"
              => /\ preimage[r] # NoChan
                 /\ hint[r] # NoChan
                 /\ ServerStarted(r)
    /\ \A m \in Requests :
          /\ witgen[m.from].state # "none"
          /\ ServerStarted(m.from)

C2_Witness ==
    \E r \in Runs : witgen[r].state = "running" /\ RequestsIssuedBy(r) # {}

\* C3: when a channel allocation fails, run returns that error and neither
\* start_server nor the witness generator is ever invoked; when start_server
\* fails, run returns that error and the witness generator is never invoked.
C3_SetupFailureShortCircuits ==
    /\ \A r \in Runs :
          /\ result[r] = Err("channel")
                => /\ pc[r] = "returned"
                   /\ server[r].state = "none"
                   /\ witgen[r].state = "none"
          /\ (result[r] = Err("server") \/ server[r].state = "start_failed")
                => /\ pc[r] = "returned"
                   /\ result[r] = Err("server")
                   /\ server[r].state = "start_failed"
                   /\ witgen[r].state = "none"
          /\ (pc[r] = "returned" /\ ~ServerStarted(r))
                => result[r] \in {Err("channel"), Err("server")}
    /\ \A m \in Requests : result[m.from] \notin {Err("channel"), Err("server")}

C3_Witness ==
    \E r1 \in Runs, r2 \in Runs :
        /\ result[r1] = Err("channel") /\ preimage[r1] # NoChan
        /\ result[r2] = Err("server")

\* C4: when setup has succeeded, what run returns is the witness generator's
\* outcome, whatever the server task's state or result.
C4_ReturnsWitnessOutcome ==
    \A r \in Runs :
        (pc[r] = "returned" /\ ServerStarted(r))
            => /\ witgen[r].state = "done"
               /\ result[r] = witgen[r].outcome

C4_Witness ==
    \E r1 \in Runs, r2 \in Runs :
        /\ pc[r1] = "returned" /\ result[r1] = Ok("w1")
        /\ server[r1].state = "finished_err"
        /\ pc[r2] = "returned" /\ result[r2] = Err("witness")
        /\ server[r2].state = "finished_ok"

\* C5: once the witness generator has completed, run returns, also when the
\* server task never finishes on its own.
C5_RunReturns ==
    \A r \in Runs : (pc[r] = "witness_done") ~> (pc[r] = "returned")

C5_Witness ==
    \E r \in Runs :
        /\ pc[r] = "returned"
        /\ witgen[r].outcome.tag = "Ok"
        /\ server[r].state = "running"
        /\ server[r].abort_requested

\* C10: every invocation has two channels of its own, shared with no other
\* invocation; the server task holds their host ends and the witness generator
\* their client ends, hint to hint and preimage to preimage, so that no end is
\* held by two tasks; and a server task receives only requests of its own
\* invocation's witness generator.
C10_ChannelsOwnedByOneRun ==
    /\ \A r \in Runs :
          /\ ServerStarted(r)
                => /\ server[r].hint = Endpoint(hint[r], "host")
                   /\ server[r].preimage = Endpoint(preimage[r], "host")
          /\ witgen[r].state # "none"
                => /\ witgen[r].hint = Endpoint(hint[r], "client")
                   /\ witgen[r].preimage = Endpoint(preimage[r], "client")
          /\ hint[r] # NoChan => (preimage[r] # NoChan /\ hint[r] # preimage[r])
          /\ \A m \in delivered[r] : m.from = r
    /\ \A r1 \in Runs, r2 \in Runs :
          (r1 < r2 /\ preimage[r1] # NoChan /\ preimage[r2] # NoChan)
              => /\ preimage[r1] # preimage[r2]
                 /\ preimage[r1] # hint[r2]
                 /\ hint[r1] # preimage[r2]
                 /\ (hint[r1] # NoChan => hint[r1] # hint[r2])

C10_Witness ==
    \E r1 \in Runs, r2 \in Runs :
        /\ r1 # r2
        /\ witgen[r1].state = "running" /\ witgen[r2].state = "running"
        /\ server[r2].state = "running"
        /\ delivered[r1] # {}

(***************************************************************************)
(* Properties of hash_rollup_config and BootInfoStruct                     *)
(***************************************************************************)

\* the canonical text a digest was computed from
TextOf(d) == d.sha256_of

\* the low 8 bytes of the word holding l2BlockNumber, read as a big-endian number
RECURSIVE FromBigEndian(_)
FromBigEndian(bytes) ==
    IF bytes = <<>> THEN 0
    ELSE 256 * FromBigEndian(SubSeq(bytes, 1, Len(bytes) - 1)) + bytes[Len(bytes)]

BlockNumberWordIsRightAligned ==
    /\ \A i \in 97..120 : encoded[i] = 0
    /\ SubSeq(encoded, 121, 128) = BigEndian(boot_info.claimed_l2_block_number, 8)
    /\ FromBigEndian(SubSeq(encoded, 125, 128)) = boot_info.claimed_l2_block_number

\* C6 as stated: the BootInfoStruct built from a BootInfo encodes to exactly
\* AGGREGATION_OUTPUTS_SIZE = 192 bytes, the block number right-aligned in the
\* 4th word.
C6_Encodes192Bytes ==
    bpc = "done" =>
        /\ Len(encoded) = AGGREGATION_OUTPUTS_SIZE
        /\ BlockNumberWordIsRightAligned

\* C6, amended: the BootInfoStruct built from a BootInfo encodes to exactly
\* 160 bytes, one 32-byte word for each of its five fields in declaration order;
\* in the 4th word the first 24 bytes are zero and the low 8 bytes are the
\* claimed L2 block number, big-endian.
C6_Encodes160Bytes ==
    bpc = "done" =>
        /\ Len(encoded) = 5 * 32
        /\ SubSeq(encoded, 1, 32) = boot_info.l1_head
        /\ SubSeq(encoded, 33, 64) = boot_info.agreed_l2_output_root
        /\ SubSeq(encoded, 65, 96) = boot_info.claimed_l2_output_root
        /\ BlockNumberWordIsRightAligned
        /\ SubSeq(encoded, 129, 160) = abi_word_digest(boot_struct.rollupConfigHash)

C6_Witness ==
    /\ bpc = "done"
    /\ boot_info.claimed_l2_block_number = 2147483647
    /\ Len(encoded) = 160

\* config c has a system config and hash_rollup_config has been applied
SystemConfigHashed(c) ==
    /\ bpc # "input"
    /\ c.op_rollup_config.genesis.system_config # None

SystemConfigIn(c) == c.op_rollup_config.genesis.system_config[1]

ParamsOf(sc) ==
    <<unwrap_or(sc.eip1559_denominator, 0), unwrap_or(sc.eip1559_elasticity, 0)>>

RenderedEip1559Params(d) == TextOf(d).pretty.o.genesis.o.system_config.o.eip1559Params.s

\* C7: for every denominator and elasticity the fields can hold, the low 8 bits
\* of the packed value are the denominator and bits 8..15 the elasticity, so
\* that distinct (denominator, elasticity) pairs are packed to distinct values.
C7_Eip1559PackLayout ==
    /\ SystemConfigHashed(celo_config) =>
          LET sc == SystemConfigIn(celo_config)
              packed == eip1559_pack(sc)
          IN  /\ packed % 256 = ParamsOf(sc)[1]
              /\ (packed \div 256) % 256 = ParamsOf(sc)[2]
              /\ RenderedEip1559Params(digest) = Prefixed(LowerHexPadded(packed, 16))
              /\ ParamsOf(sc) = <<5, 2>> =>
                    RenderedEip1559Params(digest) =
                        <<"0", "x", "0", "0", "0", "0", "0", "0", "0", "0",
                          "0", "0", "0", "0", "0", "2", "0", "5">>
    /\ (SystemConfigHashed(celo_config) /\ SystemConfigHashed(celo_config2)) =>
          (ParamsOf(SystemConfigIn(celo_config)) # ParamsOf(SystemConfigIn(celo_config2))
              => RenderedEip1559Params(digest) # RenderedEip1559Params(digest2))

\* c1 and c2 are equal except that timestamp f is absent in c1 and 0 in c2
ForkAsZero(c, f) == [c EXCEPT !.op_rollup_config.hardforks[f] = Some(0)]

DefaultEquivalent(c1, c2, f) ==
    /\ c1.op_rollup_config.hardforks[f] = None
    /\ c2.op_rollup_config.hardforks[f] = Some(0)
    /\ ForkAsZero(c1, f).op_rollup_config = ForkAsZero(c2, f).op_rollup_config

\* C8: two configs equal except that a serialized hard-fork timestamp is absent
\* in one and 0 in the other have the same canonical text and the same digest.
C8_DefaultEquivalence ==
    bpc # "input" =>
        \A f \in Forks :
            (DefaultEquivalent(celo_config, celo_config2, f)
             \/ DefaultEquivalent(celo_config2, celo_config, f))
                => /\ TextOf(digest) = TextOf(digest2)
                   /\ digest = digest2

C8_Witness ==
    /\ bpc = "hashed"
    /\ DefaultEquivalent(celo_config, celo_config2, "isthmus_time")
    /\ digest = digest2

\* C9: two CeloRollupConfig values with equal op_rollup_config have the same
\* digest whatever their cel2_time and wrapper hardforks, and the
\* rollupConfigHash of a BootInfoStruct is the digest of any CeloRollupConfig
\* that wraps boot_info.rollup_config.
C9_DigestIgnoresCeloFields ==
    /\ bpc # "input" =>
          (celo_config.op_rollup_config = celo_config2.op_rollup_config
              => digest = digest2)
    /\ bpc \in {"assembled", "done"} =>
          /\ boot_info.rollup_config = celo_config.op_rollup_config
                => boot_struct.rollupConfigHash = digest
          /\ boot_info.rollup_config = celo_config2.op_rollup_config
                => boot_struct.rollupConfigHash = digest2

C9_Witness ==
    /\ bpc = "done"
    /\ celo_config.op_rollup_config = celo_config2.op_rollup_config
    /\ celo_config.hardforks.cel2_time = Some(1)
    /\ celo_config2.hardforks.cel2_time = None
    /\ celo_config.hardforks.op_hardfork_config # celo_config2.hardforks.op_hardfork_config
    /\ boot_struct.rollupConfigHash = digest
    /\ digest = digest2

====
